---- MODULE Spec2Model ----
(***************************************************************************)
(* Model of visualize_sales.py: the classify / link / aggregate / rank     *)
(* pipeline run by main().  Python dicts are modelled as sequences of      *)
(* [k, v] entries in insertion order, lists as sequences, strings that are *)
(* inspected (event names) as sequences of characters.                     *)
(***************************************************************************)
EXTENDS Integers, Sequences, FiniteSets, TLC

VARIABLES pc, events, sales, concerts, upsells, event_to_concert, shows,
          n, top, bottom, raised, query_rows

vars == <<pc, events, sales, concerts, upsells, event_to_concert, shows,
          n, top, bottom, raised, query_rows>>

----------------------------------------------------------------------------
(* Bounds of the explored inputs *)

MaxEvents == 3
MaxSales == 2
MaxTickets == 2
MaxN == 2

----------------------------------------------------------------------------
(* Python building blocks *)

UpperCase == <<"A","B","C","D","E","F","G","H","I","J","K","L","M",
               "N","O","P","Q","R","S","T","U","V","W","X","Y","Z">>
LowerCase == <<"a","b","c","d","e","f","g","h","i","j","k","l","m",
               "n","o","p","q","r","s","t","u","v","w","x","y","z">>

\* str.lower() on one character
LowerTable == [i \in 1..26 |-> LowerCase[i]]
UpperIndex == [ch \in {UpperCase[i] : i \in 1..26} |->
                  CHOOSE i \in 1..26 : UpperCase[i] = ch]
LowerChar(ch) ==
    IF ch \in DOMAIN UpperIndex THEN LowerTable[UpperIndex[ch]] ELSE ch

\* str.lower()
Lower(s) == [i \in 1..Len(s) |-> LowerChar(s[i])]

\* needle in hay  (substring test)
Contains(hay, needle) ==
    \E i \in 0..(Len(hay) - Len(needle)) :
        SubSeq(hay, i + 1, i + Len(needle)) = needle

\* k in d
DictHas(d, k) == \E i \in 1..Len(d) : d[i].k = k

\* d[k]  (only used where k in d)
DictGet(d, k) == d[CHOOSE i \in 1..Len(d) : d[i].k = k].v

\* d.get(k, default)
DictGetDefault(d, k, default) == IF DictHas(d, k) THEN DictGet(d, k) ELSE default

\* d[k] = v : an existing key keeps its position, a new key goes last
DictSet(d, k, v) ==
    IF DictHas(d, k)
    THEN [i \in 1..Len(d) |-> IF d[i].k = k THEN [k |-> k, v |-> v] ELSE d[i]]
    ELSE Append(d, [k |-> k, v |-> v])

\* Python's normalisation of a slice index against a list of length len
SliceIndex(i, len) ==
    IF i < 0 THEN (IF len + i < 0 THEN 0 ELSE len + i)
    ELSE (IF i > len THEN len ELSE i)

\* s[:stop]
SliceTo(s, stop) == SubSeq(s, 1, SliceIndex(stop, Len(s)))

\* s[start:]
SliceFrom(s, start) == SubSeq(s, SliceIndex(start, Len(s)) + 1, Len(s))

\* tuple comparison (minute, tickets) < (minute, tickets)
TupleLess(a, b) == a[1] < b[1] \/ (a[1] = b[1] /\ a[2] < b[2])

\* insertion of x into an ascending list, after the elements not greater than x
RECURSIVE InsertAsc(_, _)
InsertAsc(s, x) ==
    IF s = <<>> THEN <<x>>
    ELSE IF TupleLess(x, Head(s)) THEN <<x>> \o s
         ELSE <<Head(s)>> \o InsertAsc(Tail(s), x)

\* sorted(list of tuples)
RECURSIVE Sorted(_)
Sorted(s) ==
    IF s = <<>> THEN <<>>
    ELSE InsertAsc(Sorted(SubSeq(s, 1, Len(s) - 1)), s[Len(s)])

----------------------------------------------------------------------------
(* Input domains: the values load_events and load_sales can return *)

Marker == <<"s","u","p","e","r"," ","a","w","e","s","o","m","e"," ","t","o","u","r">>

NameConcert == <<"N","H"," ","S","u","p","e","r"," ","A","w","e","s","o","m","e",
                 " ","T","O","U","R">>
NameUpsell == <<"V","I","P"," ","T","o","u","r">>
Names == {NameConcert, NameUpsell}

EventIds == 1..MaxEvents
Venues == {1, 2}
Dts == {1, 2}
Minutes == {1, 2}
Tickets == 0..MaxTickets

\* str.strip(): leading and trailing blanks removed
RECURSIVE StripLeft(_)
StripLeft(str) ==
    IF str # <<>> /\ Head(str) = " " THEN StripLeft(Tail(str)) ELSE str

RECURSIVE StripRight(_)
StripRight(str) ==
    IF str # <<>> /\ str[Len(str)] = " "
    THEN StripRight(SubSeq(str, 1, Len(str) - 1)) ELSE str

Strip(str) == StripRight(StripLeft(str))

\* rows of events.csv: event ids are opaque keys, one row per event, the
\* k-th row carries id k
EventRows == [event_id : EventIds, event_name : Names, venue_id : Venues,
              event_dt : Dts]

\* rows of ticket_sales.csv: a row may name an event id that is not in events
SaleRows == [event_id : EventIds, sales_minute : Minutes,
             tickets_sold_in_minute : Tickets]

----------------------------------------------------------------------------
(* 2. CLASSIFY & LINK *)

\* "super awesome tour" in e["name"].lower()
IsConcertName(name) == LET lowered == Lower(name) IN Contains(lowered, Marker)

RECURSIVE ConcertsOf(_)
ConcertsOf(evs) ==
    IF evs = <<>> THEN <<>>
    ELSE IF IsConcertName(Head(evs).v.name)
         THEN <<Head(evs)>> \o ConcertsOf(Tail(evs))
         ELSE ConcertsOf(Tail(evs))

RECURSIVE UpsellsOf(_)
UpsellsOf(evs) ==
    IF evs = <<>> THEN <<>>
    ELSE IF IsConcertName(Head(evs).v.name)
         THEN UpsellsOf(Tail(evs))
         ELSE <<Head(evs)>> \o UpsellsOf(Tail(evs))

\* classify_events: the pair (concerts, upsells)
classify_events(evs) == <<ConcertsOf(evs), UpsellsOf(evs)>>

\* variant: the index key keeps the venue only
VdKeyVenueOnly(e) == <<e.venue_id>>

VdKey(e) == <<e.venue_id, e.event_dt>>

\* variant: the first concert of a (venue, dt) pair keeps the index entry
RECURSIVE ConcertByVdFirstWins(_, _)
ConcertByVdFirstWins(cs, acc) ==
    IF cs = <<>> THEN acc
    ELSE ConcertByVdFirstWins(Tail(cs),
             IF DictHas(acc, VdKey(Head(cs).v)) THEN acc
             ELSE DictSet(acc, VdKey(Head(cs).v), Head(cs).k))

\* for cid, c in concerts.items(): concert_by_vd[(venue, dt)] = cid
RECURSIVE ConcertByVd(_, _)
ConcertByVd(cs, acc) ==
    IF cs = <<>> THEN acc
    ELSE ConcertByVd(Tail(cs), DictSet(acc, VdKey(Head(cs).v), Head(cs).k))

\* for cid in concerts: event_to_concert[cid] = cid
RECURSIVE MapConcerts(_, _)
MapConcerts(cs, acc) ==
    IF cs = <<>> THEN acc
    ELSE MapConcerts(Tail(cs), DictSet(acc, Head(cs).k, Head(cs).k))

\* variant: an unmatched upsell is mapped to itself
RECURSIVE MapUpsellsKeepOrphans(_, _, _)
MapUpsellsKeepOrphans(us, concert_by_vd, acc) ==
    IF us = <<>> THEN acc
    ELSE LET key == VdKey(Head(us).v)
         IN  MapUpsellsKeepOrphans(Tail(us), concert_by_vd,
                 DictSet(acc, Head(us).k,
                         DictGetDefault(concert_by_vd, key, Head(us).k)))

\* for uid, u in upsells.items(): if key in concert_by_vd: ...
RECURSIVE MapUpsells(_, _, _)
MapUpsells(us, concert_by_vd, acc) ==
    IF us = <<>> THEN acc
    ELSE LET key == VdKey(Head(us).v)
         IN  MapUpsells(Tail(us), concert_by_vd,
                        IF DictHas(concert_by_vd, key)
                        THEN DictSet(acc, Head(us).k, DictGet(concert_by_vd, key))
                        ELSE acc)

build_show_map(cs, us) ==
    MapUpsells(us, ConcertByVd(cs, <<>>), MapConcerts(cs, <<>>))

----------------------------------------------------------------------------
(* 3. AGGREGATE *)

\* defaultdict(int)[k] += x
DictAdd(d, k, x) == DictSet(d, k, DictGetDefault(d, k, 0) + x)

\* defaultdict(list)[k].append(x)
DictAppend(d, k, x) == DictSet(d, k, Append(DictGetDefault(d, k, <<>>), x))

EmptyAcc == [concert_tix |-> <<>>, upsell_tix |-> <<>>, timeseries |-> <<>>]

\* variant: every matched row is added to the concert total
AccumulateRowAllConcert(acc, row, e2c) ==
    LET eid == row.event_id
    IN  IF ~DictHas(e2c, eid) THEN acc
        ELSE LET cid == DictGet(e2c, eid)
                 tix == row.tickets
             IN  [concert_tix |-> DictAdd(acc.concert_tix, cid, tix),
                  upsell_tix  |-> acc.upsell_tix,
                  timeseries  |-> DictAppend(acc.timeseries, cid,
                                             <<row.sales_minute, tix>>)]

\* one iteration of "for row in sales_rows"
AccumulateRow(acc, row, e2c) ==
    LET eid == row.event_id
    IN  IF ~DictHas(e2c, eid) THEN acc
        ELSE LET cid == DictGet(e2c, eid)
                 tix == row.tickets
             IN  [concert_tix |-> IF eid = cid THEN DictAdd(acc.concert_tix, cid, tix)
                                  ELSE acc.concert_tix,
                  upsell_tix  |-> IF eid = cid THEN acc.upsell_tix
                                  ELSE DictAdd(acc.upsell_tix, cid, tix),
                  timeseries  |-> DictAppend(acc.timeseries, cid,
                                             <<row.sales_minute, tix>>)]

RECURSIVE Accumulate(_, _, _)
Accumulate(rows, e2c, acc) ==
    IF rows = <<>> THEN acc
    ELSE Accumulate(Tail(rows), e2c, AccumulateRow(acc, Head(rows), e2c))

\* a / b: Python raises ZeroDivisionError when b = 0
\* the float ut / total * 100 is kept in hundredths of a percent, rounded down
PctDiv(ut, total) ==
    IF total = 0 THEN [raised |-> "ZeroDivisionError", value |-> 0]
    ELSE [raised |-> "none", value |-> (ut * 10000) \div total]

\* variant: the division is not guarded
UpsellPctUnguarded(ut, total) == PctDiv(ut, total)

\* (ut / total * 100) if total > 0 else 0.0
UpsellPct(ut, total) ==
    IF total > 0 THEN PctDiv(ut, total) ELSE [raised |-> "none", value |-> 0]

\* variant: the total leaves the upsell tickets out
MakeShowConcertTotal(cid, c, acc) ==
    LET ct == DictGetDefault(acc.concert_tix, cid, 0)
        ut == DictGetDefault(acc.upsell_tix, cid, 0)
        total == ct
    IN  [concert_id |-> cid,
         venue_id |-> c.venue_id,
         event_dt |-> c.event_dt,
         concert_name |-> c.name,
         concert_tickets |-> ct,
         upsell_tickets |-> ut,
         total_tickets |-> total,
         upsell_pct |-> UpsellPct(ut, total).value,
         timeseries |-> Sorted(DictGetDefault(acc.timeseries, cid, <<>>))]

\* the dict appended to shows for one concert
MakeShow(cid, c, acc) ==
    LET ct == DictGetDefault(acc.concert_tix, cid, 0)
        ut == DictGetDefault(acc.upsell_tix, cid, 0)
        total == ct + ut
    IN  [concert_id |-> cid,
         venue_id |-> c.venue_id,
         event_dt |-> c.event_dt,
         concert_name |-> c.name,
         concert_tickets |-> ct,
         upsell_tickets |-> ut,
         total_tickets |-> total,
         upsell_pct |-> UpsellPct(ut, total).value,
         timeseries |-> Sorted(DictGetDefault(acc.timeseries, cid, <<>>))]

\* variant: only the concerts that have sale rows get a show
RECURSIVE BuildShowsSoldOnly(_, _)
BuildShowsSoldOnly(cs, acc) ==
    IF cs = <<>> THEN <<>>
    ELSE IF DictHas(acc.timeseries, Head(cs).k)
         THEN <<MakeShow(Head(cs).k, Head(cs).v, acc)>>
                  \o BuildShowsSoldOnly(Tail(cs), acc)
         ELSE BuildShowsSoldOnly(Tail(cs), acc)

\* for cid, c in concerts.items(): shows.append({...})
RECURSIVE BuildShows(_, _)
BuildShows(cs, acc) ==
    IF cs = <<>> THEN <<>>
    ELSE <<MakeShow(Head(cs).k, Head(cs).v, acc)>> \o BuildShows(Tail(cs), acc)

\* does building some show raise?
ShowsRaise(cs, acc) ==
    \E i \in 1..Len(cs) :
        UpsellPct(DictGetDefault(acc.upsell_tix, cs[i].k, 0),
                  DictGetDefault(acc.concert_tix, cs[i].k, 0)
                    + DictGetDefault(acc.upsell_tix, cs[i].k, 0)).raised # "none"

\* variant: reverse=True is missing, the order is ascending
RECURSIVE InsertDescNoReverse(_, _)
InsertDescNoReverse(s, x) ==
    IF s = <<>> THEN <<x>>
    ELSE IF Head(s).total_tickets > x.total_tickets THEN <<x>> \o s
         ELSE <<Head(s)>> \o InsertDescNoReverse(Tail(s), x)

\* place x after the elements whose total is not smaller (stable, descending)
RECURSIVE InsertDesc(_, _)
InsertDesc(s, x) ==
    IF s = <<>> THEN <<x>>
    ELSE IF Head(s).total_tickets < x.total_tickets THEN <<x>> \o s
         ELSE <<Head(s)>> \o InsertDesc(Tail(s), x)

\* shows.sort(key=lambda s: s["total_tickets"], reverse=True)
RECURSIVE SortShows(_)
SortShows(s) ==
    IF s = <<>> THEN <<>>
    ELSE InsertDesc(SortShows(SubSeq(s, 1, Len(s) - 1)), s[Len(s)])

aggregate_show_sales(sales_rows, e2c, cs, evs) ==
    LET acc == Accumulate(sales_rows, e2c, EmptyAcc)
    IN  IF ShowsRaise(cs, acc)
        THEN [raised |-> "ZeroDivisionError", shows |-> <<>>]
        ELSE [raised |-> "none", shows |-> SortShows(BuildShows(cs, acc))]

----------------------------------------------------------------------------
(* 4. IDENTIFY TOP / BOTTOM *)

\* variant: the filter keeps the zero-sales shows
RECURSIVE WithSalesUnfiltered(_)
WithSalesUnfiltered(s) ==
    IF s = <<>> THEN <<>>
    ELSE IF Head(s).total_tickets >= 0
         THEN <<Head(s)>> \o WithSalesUnfiltered(Tail(s))
         ELSE WithSalesUnfiltered(Tail(s))

\* [s for s in shows if s["total_tickets"] > 0]
RECURSIVE WithSales(_)
WithSales(s) ==
    IF s = <<>> THEN <<>>
    ELSE IF Head(s).total_tickets > 0 THEN <<Head(s)>> \o WithSales(Tail(s))
         ELSE WithSales(Tail(s))

\* the elements of s that do not occur in other, in order
RECURSIVE Without(_, _)
Without(s, other) ==
    IF s = <<>> THEN <<>>
    ELSE IF \E i \in 1..Len(other) : other[i] = Head(s)
         THEN Without(Tail(s), other)
         ELSE <<Head(s)>> \o Without(Tail(s), other)

\* variant: shows already in top are dropped from bottom
get_top_bottom_dedup(s, num) ==
    LET with_sales == WithSales(s)
    IN  <<SliceTo(with_sales, num),
          Without(SliceFrom(with_sales, 0 - num), SliceTo(with_sales, num))>>

\* get_top_bottom: the pair (top, bottom)
get_top_bottom(s, num) ==
    LET with_sales == WithSales(s)
    IN  <<SliceTo(with_sales, num), SliceFrom(with_sales, 0 - num)>>

----------------------------------------------------------------------------
(* 6. WRITTEN SUMMARY *)

\* seq[0] and seq[-1]: Python raises IndexError on an empty list
IndexRaises(seq) == IF seq = <<>> THEN "IndexError" ELSE "none"

\* a / b on lengths: Python raises ZeroDivisionError when b = 0
DivRaises(b) == IF b = 0 THEN "ZeroDivisionError" ELSE "none"

\* the first exception among the results of consecutive evaluations
RECURSIVE FirstRaise(_)
FirstRaise(rs) ==
    IF rs = <<>> THEN "none"
    ELSE IF Head(rs) # "none" THEN Head(rs) ELSE FirstRaise(Tail(rs))

\* write_summary: the exception it ends with, "none" when it returns.
\* The overview section guards its divisions (with_sales, total_tix); the
\* loops over top and bottom index nothing; the insights index top[0] and
\* bottom[-1] and divide by len(with_sales) without a guard.
write_summary(all_shows, top_shows, bottom_shows) ==
    LET with_sales == WithSales(all_shows)
    IN  FirstRaise(<<IndexRaises(top_shows),        \* top[0]["venue_id"]
                     IndexRaises(bottom_shows),     \* bottom[-1]["total_tickets"]
                     DivRaises(Len(with_sales)),    \* ... / len(with_sales) * 100
                     IndexRaises(top_shows)>>)      \* top[0]["upsell_pct"]

----------------------------------------------------------------------------
(* upsell_rate_by_venue_chart.py: QUERY over the tables events and
   ticket_sales, which hold the rows of the same two files.  A row of a
   joined table is named by the rows it was joined from, so that equal
   rows coming from different joins stay apart as in SQL. *)

\* WHERE LOWER(event_name) LIKE '%super awesome tour%'
SqlLikeTour(name) == LET lowered == Lower(name) IN Contains(lowered, Marker)

\* concerts AS (...): positions of the rows of events
SqlConcerts(evs) == {i \in 1..Len(evs) : SqlLikeTour(evs[i].v.name)}

\* upsells AS (...)
SqlUpsells(evs) == {i \in 1..Len(evs) : ~SqlLikeTour(evs[i].v.name)}

\* matched_upsells AS (upsells u INNER JOIN concerts c ON venue and dt)
SqlMatchedUpsells(evs) ==
    {m \in SqlUpsells(evs) \X SqlConcerts(evs) :
        /\ evs[m[1]].v.venue_id = evs[m[2]].v.venue_id
        /\ evs[m[1]].v.event_dt = evs[m[2]].v.event_dt}

\* concerts c INNER JOIN ticket_sales ts ON c.event_id = ts.event_id
SqlConcertJoin(evs, sls) ==
    {r \in SqlConcerts(evs) \X (1..Len(sls)) : evs[r[1]].k = sls[r[2]].event_id}

\* matched_upsells mu INNER JOIN ticket_sales ts ON mu.event_id = ts.event_id
SqlUpsellJoin(evs, sls) ==
    {r \in SqlMatchedUpsells(evs) \X (1..Len(sls)) :
        evs[r[1][1]].k = sls[r[2]].event_id}

\* SUM(ts.tickets_sold_in_minute) over joined rows <<..., sale position>>
RECURSIVE SqlSum(_, _)
SqlSum(rows, sls) ==
    IF rows = {} THEN 0
    ELSE LET r == CHOOSE x \in rows : TRUE
         IN  sls[r[2]].tickets + SqlSum(rows \ {r}, sls)

\* concert_sales AS (... GROUP BY c.venue_id)
SqlConcertSales(evs, sls) ==
    LET joined == SqlConcertJoin(evs, sls)
    IN  {[venue_id |-> v,
          concert_tickets |->
              SqlSum({r \in joined : evs[r[1]].v.venue_id = v}, sls)]
         : v \in {evs[r[1]].v.venue_id : r \in joined}}

\* upsell_sales AS (... GROUP BY mu.venue_id); mu.venue_id is c.venue_id
SqlUpsellSales(evs, sls) ==
    LET joined == SqlUpsellJoin(evs, sls)
    IN  {[venue_id |-> v,
          upsell_options |->
              Cardinality({evs[r[1][1]].v.name :
                              r \in {x \in joined : evs[x[1][2]].v.venue_id = v}}),
          upsell_tickets |->
              SqlSum({r \in joined : evs[r[1][2]].v.venue_id = v}, sls)]
         : v \in {evs[r[1][2]].v.venue_id : r \in joined}}

\* ROUND(upsell * 100.0 / concert, 2), kept in hundredths of a percent
SqlRoundPct(upsell_tickets, concert_tickets) ==
    (2 * upsell_tickets * 10000 + concert_tickets) \div (2 * concert_tickets)

\* SELECT ... FROM concert_sales cs LEFT JOIN upsell_sales us
\* ON cs.venue_id = us.venue_id WHERE cs.concert_tickets > 0
SqlSelect(evs, sls) ==
    LET cs_rows == SqlConcertSales(evs, sls)
        us_rows == SqlUpsellSales(evs, sls)
        UsOf(v) == {us \in us_rows : us.venue_id = v}
        Coalesce(v, field) ==
            IF UsOf(v) = {} THEN 0 ELSE (CHOOSE us \in UsOf(v) : TRUE)[field]
    IN  {[venue_id |-> cs.venue_id,
          concert_tickets |-> cs.concert_tickets,
          upsell_tickets |-> Coalesce(cs.venue_id, "upsell_tickets"),
          upsell_options |-> Coalesce(cs.venue_id, "upsell_options"),
          upsell_rate_pct |-> SqlRoundPct(Coalesce(cs.venue_id, "upsell_tickets"),
                                          cs.concert_tickets)]
         : cs \in {c \in cs_rows : c.concert_tickets > 0}}

\* ORDER BY upsell_options DESC, upsell_rate_pct DESC
SqlOrdered(a, b) ==
    \/ a.upsell_options > b.upsell_options
    \/ /\ a.upsell_options = b.upsell_options
       /\ a.upsell_rate_pct >= b.upsell_rate_pct

\* the row lists the query may return: rows that tie come in any order
QueryResults(evs, sls) ==
    LET rows == SqlSelect(evs, sls)
        k == Cardinality(rows)
    IN  {f \in [1..k -> rows] :
            /\ \A i, j \in 1..k : f[i] = f[j] => i = j
            /\ \A i, j \in 1..k : i < j => SqlOrdered(f[i], f[j])}

----------------------------------------------------------------------------
(* main(): one step per call *)

Init ==
    /\ pc = "load_events"
    /\ events = <<>>
    /\ sales = <<>>
    /\ concerts = <<>>
    /\ upsells = <<>>
    /\ event_to_concert = <<>>
    /\ shows = <<>>
    /\ n = 2
    /\ top = <<>>
    /\ bottom = <<>>
    /\ raised = "none"
    /\ query_rows = <<>>

\* load_events: one row of csv.DictReader
LoadEventsRow ==
    /\ pc = "load_events"
    /\ Len(events) < MaxEvents
    /\ \E row \in EventRows :
        /\ row.event_id = Len(events) + 1
        /\ events' = DictSet(events, row.event_id,
                             [name |-> Strip(row.event_name),
                              venue_id |-> row.venue_id,
                              event_dt |-> row.event_dt])
    /\ UNCHANGED <<pc, sales, concerts, upsells, event_to_concert, shows,
                   n, top, bottom, raised, query_rows>>

\* load_events: end of file, return events
LoadEventsReturn ==
    /\ pc = "load_events"
    /\ pc' = "load_sales"
    /\ UNCHANGED <<events, sales, concerts, upsells, event_to_concert, shows,
                   n, top, bottom, raised, query_rows>>

\* load_sales: one row of csv.DictReader
LoadSalesRow ==
    /\ pc = "load_sales"
    /\ Len(sales) < MaxSales
    /\ \E row \in SaleRows :
        sales' = Append(sales, [event_id |-> row.event_id,
                                sales_minute |-> row.sales_minute,
                                tickets |-> row.tickets_sold_in_minute])
    /\ UNCHANGED <<pc, events, concerts, upsells, event_to_concert, shows,
                   n, top, bottom, raised, query_rows>>

\* load_sales: end of file, return rows
LoadSalesReturn ==
    /\ pc = "load_sales"
    /\ pc' = "classify"
    /\ UNCHANGED <<events, sales, concerts, upsells, event_to_concert, shows,
                   n, top, bottom, raised, query_rows>>

ClassifyEvents ==
    /\ pc = "classify"
    /\ LET r == classify_events(events)
       IN  /\ concerts' = r[1]
           /\ upsells' = r[2]
    /\ pc' = "link"
    /\ UNCHANGED <<events, sales, event_to_concert, shows, n, top, bottom, raised, query_rows>>

BuildShowMap ==
    /\ pc = "link"
    /\ event_to_concert' = build_show_map(concerts, upsells)
    /\ pc' = "aggregate"
    /\ UNCHANGED <<events, sales, concerts, upsells, shows, n, top, bottom, raised, query_rows>>

AggregateShowSales ==
    /\ pc = "aggregate"
    /\ LET r == aggregate_show_sales(sales, event_to_concert, concerts, events)
       IN  /\ raised' = r.raised
           /\ shows' = r.shows
           /\ pc' = IF r.raised = "none" THEN "rank" ELSE "raised"
    /\ UNCHANGED <<events, sales, concerts, upsells, event_to_concert, n, top, bottom, query_rows>>

\* main() passes n=2; the function takes any integer
GetTopBottom ==
    /\ pc = "rank"
    /\ \E num \in (0 - 1)..MaxN :
        /\ n' = num
        /\ LET r == get_top_bottom(shows, num)
           IN  /\ top' = r[1]
               /\ bottom' = r[2]
    /\ pc' = "ranked"
    /\ UNCHANGED <<events, sales, concerts, upsells, event_to_concert, shows, raised, query_rows>>

\* main(): write_summary(shows, top, bottom) after get_top_bottom(shows, n=2);
\* the figures drawn in between read the same values and assign none of them
WriteSummary ==
    /\ pc = "ranked"
    /\ n = 2
    /\ LET r == write_summary(shows, top, bottom)
       IN  /\ raised' = r
           /\ pc' = IF r = "none" THEN "done" ELSE "summary_raised"
    /\ UNCHANGED <<events, sales, concerts, upsells, event_to_concert, shows,
                   n, top, bottom, query_rows>>

\* upsell_rate_by_venue_chart.main(): rows = cur.execute(QUERY).fetchall()
\* on the files visualize_sales.py has read
RunQuery ==
    /\ pc = "rank"
    /\ query_rows' \in QueryResults(events, sales)
    /\ pc' = "queried"
    /\ UNCHANGED <<events, sales, concerts, upsells, event_to_concert, shows,
                   n, top, bottom, raised>>

Next == LoadEventsRow \/ LoadEventsReturn \/ LoadSalesRow \/ LoadSalesReturn
        \/ ClassifyEvents \/ BuildShowMap \/ AggregateShowSales \/ GetTopBottom
        \/ WriteSummary \/ RunQuery

Spec == Init /\ [][Next]_vars

TypeOK ==
    /\ pc \in {"load_events", "load_sales", "classify", "link", "aggregate", "rank", "ranked", "raised",
              "done", "summary_raised", "queried"}
    /\ raised \in {"none", "ZeroDivisionError", "IndexError"}

----------------------------------------------------------------------------
(* Vocabulary of the properties *)

\* aggregate_show_sales has returned
ShowsReady == pc \in {"rank", "ranked"}

\* build_show_map has returned
MapReady == pc \in {"aggregate", "rank", "ranked"}

ConcertIds == {concerts[i].k : i \in 1..Len(concerts)}
UpsellIds == {upsells[i].k : i \in 1..Len(upsells)}

Min(a, b) == IF a < b THEN a ELSE b

\* sum of tickets over the sale rows at the indexes in S
RECURSIVE SumTickets(_)
SumTickets(S) ==
    IF S = {} THEN 0
    ELSE LET i == CHOOSE j \in S : TRUE
         IN  sales[i].tickets + SumTickets(S \ {i})

RECURSIVE SumTotals(_)
SumTotals(s) == IF s = <<>> THEN 0 ELSE Head(s).total_tickets + SumTotals(Tail(s))

RECURSIVE SumSeriesLen(_)
SumSeriesLen(s) == IF s = <<>> THEN 0 ELSE Len(Head(s).timeseries) + SumSeriesLen(Tail(s))

\* some concert has exactly the (venue_id, event_dt) pair of event value e
HasConcertAt(e) ==
    \E i \in 1..Len(concerts) :
        /\ concerts[i].v.venue_id = e.venue_id
        /\ concerts[i].v.event_dt = e.event_dt

\* the event id is a concert, or an upsell that has a concert at its pair
Resolves(eid) ==
    \/ eid \in ConcertIds
    \/ \E i \in 1..Len(upsells) : upsells[i].k = eid /\ HasConcertAt(upsells[i].v)

\* sale rows of the concert itself / of the other events mapped to it
OwnRows(cid) == {i \in 1..Len(sales) : sales[i].event_id = cid}
LinkedRows(cid) ==
    {i \in 1..Len(sales) :
        /\ sales[i].event_id # cid
        /\ DictHas(event_to_concert, sales[i].event_id)
        /\ DictGet(event_to_concert, sales[i].event_id) = cid}

----------------------------------------------------------------------------
(* Properties *)

\* C1: after aggregation every concert id is the concert_id of exactly one
\* Show and every Show's concert_id is a concert, also for concerts that
\* have no sale rows.
C1_ShowsBijection ==
    ShowsReady =>
        /\ \A cid \in ConcertIds :
              Cardinality({i \in 1..Len(shows) : shows[i].concert_id = cid}) = 1
        /\ \A i \in 1..Len(shows) : shows[i].concert_id \in ConcertIds
        /\ Len(shows) = Len(concerts)

C1_Witness ==
    /\ ShowsReady
    /\ Len(concerts) >= 2
    /\ \E cid \in ConcertIds : OwnRows(cid) = {} /\ LinkedRows(cid) = {}
    /\ \E cid \in ConcertIds : OwnRows(cid) # {}

\* C2: each Show's concert_tickets is the sum over the sale rows of its own
\* concert id, and its upsell_tickets the sum over the rows of the other
\* events that the event-to-concert mapping sends to it.
C2_TicketSplit ==
    ShowsReady =>
        \A i \in 1..Len(shows) :
            /\ shows[i].concert_tickets = SumTickets(OwnRows(shows[i].concert_id))
            /\ shows[i].upsell_tickets = SumTickets(LinkedRows(shows[i].concert_id))

C2_Witness ==
    /\ ShowsReady
    /\ \E i \in 1..Len(shows) :
        /\ shows[i].concert_tickets > 0
        /\ shows[i].upsell_tickets > 0
        /\ shows[i].concert_tickets # shows[i].upsell_tickets

\* C3: the Show totals add up to the tickets of the sale rows whose event is
\* in the mapping; rows of orphaned upsells and of unknown events reach no
\* total and no time series, and nothing is raised.
C3_TicketConservation ==
    /\ pc # "raised"
    /\ ShowsReady =>
        /\ SumTotals(shows) =
              SumTickets({i \in 1..Len(sales) :
                             DictHas(event_to_concert, sales[i].event_id)})
        /\ SumTotals(shows) =
              SumTickets({i \in 1..Len(sales) : Resolves(sales[i].event_id)})
        /\ SumSeriesLen(shows) =
              Cardinality({i \in 1..Len(sales) : Resolves(sales[i].event_id)})

C3_Witness ==
    /\ ShowsReady
    /\ \E i \in 1..Len(sales) :
        /\ sales[i].event_id \in UpsellIds
        /\ ~Resolves(sales[i].event_id)
        /\ sales[i].tickets > 0
    /\ \E i \in 1..Len(shows) : shows[i].total_tickets > 0

\* C4: the mapping sends every concert to itself, holds an upsell exactly
\* when some concert has its (venue_id, event_dt) pair, sends it to a concert
\* with that pair, and has no value that is not a concert.
C4_ShowMap ==
    MapReady =>
        /\ \A i \in 1..Len(concerts) :
              /\ DictHas(event_to_concert, concerts[i].k)
              /\ DictGet(event_to_concert, concerts[i].k) = concerts[i].k
        /\ \A i \in 1..Len(upsells) :
              /\ DictHas(event_to_concert, upsells[i].k) <=> HasConcertAt(upsells[i].v)
              /\ DictHas(event_to_concert, upsells[i].k) =>
                    \E j \in 1..Len(concerts) :
                        /\ concerts[j].k = DictGet(event_to_concert, upsells[i].k)
                        /\ concerts[j].v.venue_id = upsells[i].v.venue_id
                        /\ concerts[j].v.event_dt = upsells[i].v.event_dt
        /\ \A i \in 1..Len(event_to_concert) :
              /\ event_to_concert[i].v \in ConcertIds
              /\ event_to_concert[i].k \in ConcertIds \cup UpsellIds
              /\ \A j \in 1..Len(event_to_concert) :
                    event_to_concert[j].k = event_to_concert[i].k => j = i

C4_Witness ==
    /\ MapReady
    /\ \E i \in 1..Len(upsells) : DictHas(event_to_concert, upsells[i].k)
    /\ \E i \in 1..Len(upsells) : ~DictHas(event_to_concert, upsells[i].k)
    /\ concerts # <<>>

\* C5: every Show's total_tickets is concert_tickets + upsell_tickets.
C5_TotalIsSum ==
    ShowsReady =>
        \A i \in 1..Len(shows) :
            shows[i].total_tickets = shows[i].concert_tickets + shows[i].upsell_tickets

C5_Witness ==
    /\ ShowsReady
    /\ \E i \in 1..Len(shows) :
        /\ shows[i].concert_tickets > 0
        /\ shows[i].upsell_tickets > 0
        /\ shows[i].total_tickets > shows[i].concert_tickets

\* C6: for N >= 0, top is the first min(N, k) and bottom the last min(N, k)
\* elements of with_sales (k its length), so neither is longer than N.
C6_FirstAndLastN ==
    (pc = "ranked" /\ n >= 0) =>
        LET with_sales == WithSales(shows)
            k == Len(with_sales)
            m == Min(n, k)
        IN  /\ top = SubSeq(with_sales, 1, m)
            /\ bottom = SubSeq(with_sales, k - m + 1, k)
            /\ Len(top) <= n
            /\ Len(bottom) <= n

\* C7: no zero-sales Show is in top or bottom, the totals in top do not
\* increase, and the full Show list still holds every zero-sales Show and is
\* as aggregate_show_sales returned it.
C7_ZeroSalesExcluded ==
    pc = "ranked" =>
        /\ \A i \in 1..Len(top) : top[i].total_tickets # 0
        /\ \A i \in 1..Len(bottom) : bottom[i].total_tickets # 0
        /\ \A i \in 1..(Len(top) - 1) : top[i].total_tickets >= top[i + 1].total_tickets
        /\ \A cid \in ConcertIds :
              SumTickets(OwnRows(cid)) + SumTickets(LinkedRows(cid)) = 0 =>
                  \E i \in 1..Len(shows) :
                      shows[i].concert_id = cid /\ shows[i].total_tickets = 0
        /\ shows = aggregate_show_sales(sales, event_to_concert, concerts, events).shows

C7_Witness ==
    /\ pc = "ranked"
    /\ Len(top) >= 2
    /\ top[1].total_tickets > top[2].total_tickets
    /\ \E i \in 1..Len(shows) : shows[i].total_tickets = 0

\* C8: with fewer sales-bearing Shows than N (N >= 1), top and bottom are
\* both the whole with_sales list; one sales-bearing Show and N = 2 give two
\* one-element lists holding that Show.
C8_OverlapKept ==
    (pc = "ranked" /\ n >= 1 /\ Len(WithSales(shows)) < n) =>
        /\ top = WithSales(shows)
        /\ bottom = WithSales(shows)
        /\ \A i \in 1..Len(top) :
              \E j \in 1..Len(shows) : shows[j] = top[i] /\ shows[j].total_tickets > 0

C8_Witness ==
    /\ pc = "ranked"
    /\ n = 2
    /\ Cardinality({i \in 1..Len(shows) : shows[i].total_tickets > 0}) = 1
    /\ Len(shows) >= 2
    /\ Len(top) = 1
    /\ bottom = top

\* C9: the Show list is in descending order of total_tickets.
C9_SortedDescending ==
    ShowsReady =>
        \A i \in 1..(Len(shows) - 1) :
            shows[i].total_tickets >= shows[i + 1].total_tickets

C9_Witness ==
    /\ ShowsReady
    /\ Len(shows) >= 2
    /\ shows[1].total_tickets > shows[2].total_tickets
    /\ shows[1].concert_id > shows[2].concert_id

\* C10: aggregation raises no division by zero; a Show with total 0 has
\* upsell_pct 0 and a time series that is empty or holds only zero counts,
\* and every concert without tickets has such a Show in the list.
C10_NoZeroDivision ==
    /\ raised # "ZeroDivisionError"
    /\ pc # "raised"
    /\ ShowsReady =>
        /\ \A i \in 1..Len(shows) :
              shows[i].total_tickets = 0 =>
                  /\ shows[i].upsell_pct = 0
                  /\ \A j \in 1..Len(shows[i].timeseries) :
                        shows[i].timeseries[j][2] = 0
        /\ \A cid \in ConcertIds :
              (\A r \in OwnRows(cid) \cup LinkedRows(cid) : sales[r].tickets = 0) =>
                  \E i \in 1..Len(shows) :
                      /\ shows[i].concert_id = cid
                      /\ shows[i].total_tickets = 0
                      /\ shows[i].upsell_pct = 0

C10_Witness ==
    /\ ShowsReady
    /\ \E i \in 1..Len(shows) :
        shows[i].total_tickets = 0 /\ shows[i].timeseries = <<>>
    /\ \E i \in 1..Len(shows) :
        shows[i].total_tickets = 0 /\ shows[i].timeseries # <<>>

\* concerts[i] and event value e have the same (venue_id, event_dt) pair
SamePair(i, e) ==
    /\ concerts[i].v.venue_id = e.venue_id
    /\ concerts[i].v.event_dt = e.event_dt

\* position in concerts of the last concert with the pair of e
LastConcertAt(e) ==
    CHOOSE i \in 1..Len(concerts) :
        /\ SamePair(i, e)
        /\ \A j \in 1..Len(concerts) : SamePair(j, e) => j <= i

\* sale rows of the upsells that have the pair of e
UpsellRowsAt(e) ==
    {r \in 1..Len(sales) :
        \E u \in 1..Len(upsells) :
            /\ upsells[u].k = sales[r].event_id
            /\ upsells[u].v.venue_id = e.venue_id
            /\ upsells[u].v.event_dt = e.event_dt}

\* C11: when concerts share a (venue_id, event_dt) pair, every upsell with
\* that pair is mapped to the last of them in the iteration order of
\* concerts; that Show alone counts the upsell's tickets and every earlier
\* concert of the pair has upsell_tickets = 0.
C11_LastConcertWins ==
    /\ MapReady =>
          \A u \in 1..Len(upsells) :
              HasConcertAt(upsells[u].v) =>
                  /\ DictHas(event_to_concert, upsells[u].k)
                  /\ DictGet(event_to_concert, upsells[u].k)
                        = concerts[LastConcertAt(upsells[u].v)].k
    /\ ShowsReady =>
          \A i \in 1..Len(concerts) :
              \A s \in 1..Len(shows) :
                  shows[s].concert_id = concerts[i].k =>
                      shows[s].upsell_tickets =
                          IF i = LastConcertAt(concerts[i].v)
                          THEN SumTickets(UpsellRowsAt(concerts[i].v))
                          ELSE 0

C11_Witness ==
    /\ ShowsReady
    /\ \E i, j \in 1..Len(concerts) :
        /\ i < j
        /\ SamePair(i, concerts[j].v)
        /\ j = LastConcertAt(concerts[j].v)
        /\ SumTickets(UpsellRowsAt(concerts[j].v)) > 0
        /\ \E s \in 1..Len(shows) :
              shows[s].concert_id = concerts[j].k /\ shows[s].upsell_tickets > 0
        /\ \E s \in 1..Len(shows) :
              shows[s].concert_id = concerts[i].k /\ shows[s].upsell_tickets = 0

\* C12: the run of main() ends without an exception for every input, also
\* when no Show has total_tickets > 0 and top and bottom are empty.
C12_RunCompletes ==
    /\ pc \notin {"raised", "summary_raised"}
    /\ raised = "none"

\* sums over the Shows of one venue
RECURSIVE VenueConcertTickets(_, _)
VenueConcertTickets(s, v) ==
    IF s = <<>> THEN 0
    ELSE (IF Head(s).venue_id = v THEN Head(s).concert_tickets ELSE 0)
             + VenueConcertTickets(Tail(s), v)

RECURSIVE VenueUpsellTickets(_, _)
VenueUpsellTickets(s, v) ==
    IF s = <<>> THEN 0
    ELSE (IF Head(s).venue_id = v THEN Head(s).upsell_tickets ELSE 0)
             + VenueUpsellTickets(Tail(s), v)

\* C13: for every venue_id the query reports, its concert_tickets and
\* upsell_tickets are the sums of concert_tickets and upsell_tickets over
\* the Shows of that venue, also when concerts share a (venue_id, event_dt)
\* pair.
C13_ScriptsAgree ==
    pc = "queried" =>
        \A i \in 1..Len(query_rows) :
            /\ query_rows[i].concert_tickets
                  = VenueConcertTickets(shows, query_rows[i].venue_id)
            /\ query_rows[i].upsell_tickets
                  = VenueUpsellTickets(shows, query_rows[i].venue_id)

====
